---- MODULE Spec2Model ----
(***************************************************************************)
(* StandUp: the sitting countdown (useTimer), the standing stopwatch       *)
(* (useStopwatch), the voice announcer (useSpeech) and the two-engine      *)
(* session orchestrator (StandingDeskTimer).                               *)
(*                                                                         *)
(* One step of the model is one browser task: an event handler or a timer  *)
(* callback, the React render it causes and the effects of that render,    *)
(* run to quiescence.  A callback created by useCallback or captured by a  *)
(* setTimeout closure reads the state of the render that created it, so    *)
(* every hook operation takes the status it closed over as a parameter.    *)
(***************************************************************************)
EXTENDS Integers, Sequences, FiniteSets, TLC

\* ------------------------------------------------------------------ bounds
\* One preset step, in ticks (15 * 60 seconds in the program).
PresetUnit == 2
\* The stopwatch has no upper bound; the model stops ticking it here.
MaxElapsed == 1
\* Pending speech-start timeouts / deferred utterances the model keeps.
MaxPending == 1
\* Utterances the platform queue holds in the model.
MaxQueue == 1

\* ------------------------------------------------------------ program data
TimerStatus == {"idle", "running", "paused", "completed"}
StopwatchStatus == {"idle", "running", "paused"}
SessionKind == {"sitting", "standing"}

\* DEFAULT_TIMER_PRESETS: the first two of the four presets, 15 and 30 minutes.
DEFAULT_TIMER_PRESETS == {PresetUnit * 1, PresetUnit * 2}

\* The developer panel's fast-forward offers: all shorter than any preset.
fastForwardOptions == {1}

\* The platform's voices.  A name is the sequence of its words; a language tag
\* is its sequence of subtags, lower-cased.
VoiceCatalog ==
    <<[voiceURI |-> "daniel", name |-> <<"Daniel">>, lang |-> <<"en", "gb">>],
      [voiceURI |-> "samantha", name |-> <<"Samantha">>, lang |-> <<"en", "us">>],
      [voiceURI |-> "amelie", name |-> <<"Amelie">>, lang |-> <<"fr", "fr">>],
      [voiceURI |-> "zira", name |-> <<"Microsoft", "Zira", "Desktop">>,
       lang |-> <<"en", "us">>],
      [voiceURI |-> "google", name |-> <<"Google", "US", "English">>,
       lang |-> <<"en", "us">>]>>

\* The voice lists the platform reports: empty until loaded, then one of these.
PlatformVoiceLists == {<<>>, <<VoiceCatalog[1], VoiceCatalog[2]>>}

\* selectedVoice: null, or a voice id.
NoVoice == "null"
VoiceIds == {VoiceCatalog[i].voiceURI : i \in 1..Len(VoiceCatalog)}

\* What a reload finds in the persisted selectedVoice.
PersistedVoices == {NoVoice, VoiceCatalog[1].voiceURI}

\* Seconds the stopwatch counts (the stopwatch alone).
MaxStandingTicks == 40

\* Calls of speak whose deferred utterance is pending at a time (the announcer
\* alone).
MaxSpeakCalls == 2

\* Error events of cancelled utterances the platform has yet to deliver (the
\* announcer alone).
MaxCancelled == 1

\* Voices in a platform voice list (the voice loader alone).
MaxVoices == 2

\* Speech-start timeouts the single-engine orchestrator has pending.
MaxSpeechTimeouts == 2

\* Sessions the single-engine orchestrator counts.
MaxSessionCount == 1

\* DEFAULT_SETTINGS.sessionCount
DefaultSessionCount == 0

\* The longest configured duration.
MaxDuration == PresetUnit * 2

NoTimer == [armed |-> FALSE, startStatus |-> "idle"]

VARIABLES
    timeRemaining,    \* useTimer: seconds left
    timerStatus,      \* useTimer: status
    timeElapsed,      \* useStopwatch: seconds elapsed
    standingStatus,   \* useStopwatch: status
    settings,         \* AppSettings (the persisted record)
    showAlert,        \* the alert flag
    hasAnnouncedRef,  \* the announced-once guard
    isSupported,      \* useSpeech: capability probe
    voices,           \* useSpeech: the published voice list
    platformVoices,   \* speechSynthesis.getVoices()
    voicesListener,   \* a voiceschanged listener is registered
    alertTimer,       \* the dismissal timeout of the completion effect
    speechTimeouts,   \* pending speech-start timeouts (300 ms), oldest first
    speakTimeouts,    \* pending deferred utterances of speak (100 ms)
    synthQueue,       \* utterances the platform holds (speaking or queued)
    announceCount,    \* history: alerts raised since the countdown entered Completed
    speechCount,      \* history: speech calls scheduled since then
    dismissed,        \* history: dismissals since then: "none", "manual", "timer",
                      \*   or "manualThenTimer" (the timer fired after a manual one)
    lastOp,           \* history: the orchestrator operation that made the last step
    ticks,            \* history (countdown alone): ticks since the start from Idle
    cleanRun,         \* history (countdown alone): started from Idle at the full
                      \*   duration, and neither paused nor re-set since
    plainRun,         \* history: the countdown was started from Idle at the full
                      \*   duration and has seen only start, pause and ticks since;
                      \*   ticks then counts the ticks delivered
    idleSet,          \* history (countdown alone): the duration given to the last
                      \*   setDuration if it was called while Idle and the
                      \*   initialDuration has not changed since; 0 otherwise
    announcer,        \* useSpeech: isSpeaking and error, with the platform's side
                      \*   of the utterances (the announcer alone)
    intervals,        \* the setInterval schedulers of useTimer and useStopwatch
                      \*   and their intervalRef
    sessionCount,     \* settings.sessionCount (the single-engine orchestrator)
    mounted           \* the orchestrator component is mounted

vars == <<timeRemaining, timerStatus, timeElapsed, standingStatus, settings,
          showAlert, hasAnnouncedRef, isSupported, voices, platformVoices,
          voicesListener, alertTimer, speechTimeouts, speakTimeouts, synthQueue,
          announceCount, speechCount, dismissed, lastOp, ticks, cleanRun,
          plainRun, idleSet, announcer, intervals, sessionCount,
          mounted>>

\* The state as one record, threaded through the handler and its effects.
Cur ==
    [timeRemaining |-> timeRemaining, timerStatus |-> timerStatus,
     timeElapsed |-> timeElapsed, standingStatus |-> standingStatus,
     settings |-> settings, showAlert |-> showAlert,
     hasAnnouncedRef |-> hasAnnouncedRef, isSupported |-> isSupported,
     voices |-> voices, platformVoices |-> platformVoices,
     voicesListener |-> voicesListener,
     alertTimer |-> alertTimer, speechTimeouts |-> speechTimeouts,
     speakTimeouts |-> speakTimeouts, synthQueue |-> synthQueue,
     announceCount |-> announceCount, speechCount |-> speechCount,
     dismissed |-> dismissed, lastOp |-> lastOp, ticks |-> ticks,
     cleanRun |-> cleanRun, plainRun |-> plainRun,
     idleSet |-> idleSet, announcer |-> announcer,
     intervals |-> intervals, sessionCount |-> sessionCount,
     mounted |-> mounted]

Min(a, b) == IF a < b THEN a ELSE b

\* ------------------------------------------- the hooks' tick schedulers
\* One hook's scheduler state.  live: setInterval timers not yet cleared.
\* ref: intervalRef.current is not null.  refLive: the timer it names has not
\* been cleared.
NoInterval == [live |-> 0, ref |-> FALSE, refLive |-> FALSE]

NoIntervals == [timer |-> NoInterval, standing |-> NoInterval]

\* clearInterval(intervalRef.current), when the ref is not null.
ClearRef(iv) ==
    IF iv.ref /\ iv.refLive THEN [iv EXCEPT !.live = @ - 1, !.refLive = FALSE] ELSE iv

\* An interval effect that never clears a timer.
IntervalEffectNeverCleared(iv, status) ==
    IF status = "running"
    THEN [live |-> iv.live + 1, ref |-> TRUE, refLive |-> TRUE]
    ELSE iv

\* The interval effect of a hook, re-run because its status changed: the
\* cleanup of the previous run, then the body for the new status.
IntervalEffect(iv, status) ==
    LET c == ClearRef(iv)
    IN  IF status = "running"
        THEN [live |-> c.live + 1, ref |-> TRUE, refLive |-> TRUE]
        ELSE IF c.ref THEN [ClearRef(c) EXCEPT !.ref = FALSE] ELSE c

\* useTimer's interval effect.
TimerIntervalEffect(s) ==
    [s EXCEPT !.intervals.timer = IntervalEffect(@, s.timerStatus)]

\* useStopwatch's interval effect.
StandingIntervalEffect(s) ==
    [s EXCEPT !.intervals.standing = IntervalEffect(@, s.standingStatus)]

\* ------------------------------------------------------------- useTimer
\* A start that does not test the status.
TimerStartAlways(s, status) == [s EXCEPT !.timerStatus = "running"]

\* start, as created by a render whose status was `status`.
TimerStart(s, status) ==
    IF status \in {"idle", "paused"} THEN [s EXCEPT !.timerStatus = "running"] ELSE s

TimerPause(s, status) ==
    IF status = "running" THEN [s EXCEPT !.timerStatus = "paused"] ELSE s

\* A stop that leaves the remaining time alone.
TimerStopKeepsRemaining(s, initialDuration) ==
    [s EXCEPT !.timerStatus = "idle"]

TimerStop(s, initialDuration) ==
    [s EXCEPT !.timerStatus = "idle", !.timeRemaining = initialDuration]

TimerReset(s, initialDuration) ==
    [s EXCEPT !.timerStatus = "idle", !.timeRemaining = initialDuration]

\* setDuration writes timeRemaining whatever the status is.
TimerSetDuration(s, status, duration) ==
    IF status = "idle"
    THEN [s EXCEPT !.timeRemaining = duration, !.timerStatus = "idle"]
    ELSE [s EXCEPT !.timeRemaining = duration]

\* A tick that reaches 0 without completing.
TimerTickNoCompletion(s) ==
    IF s.timeRemaining <= 1
    THEN [s EXCEPT !.timeRemaining = 0]
    ELSE [s EXCEPT !.timeRemaining = s.timeRemaining - 1]

\* A tick that completes one tick late (prev <= 0 for prev <= 1).
TimerTickLate(s) ==
    IF s.timeRemaining <= 0
    THEN [s EXCEPT !.timeRemaining = 0, !.timerStatus = "completed"]
    ELSE [s EXCEPT !.timeRemaining = s.timeRemaining - 1]

\* The interval callback's updater.
TimerTick(s) ==
    IF s.timeRemaining <= 1
    THEN [s EXCEPT !.timeRemaining = 0, !.timerStatus = "completed"]
    ELSE [s EXCEPT !.timeRemaining = s.timeRemaining - 1]

\* The effect on [initialDuration, status].
TimerDurationEffect(s) ==
    IF s.timerStatus = "idle"
    THEN [s EXCEPT !.timeRemaining = s.settings.timerDuration]
    ELSE s

\* progress, as the exact fraction <<numerator, denominator>> of a percentage.
Progress(initialDuration, remaining) ==
    IF initialDuration > 0
    THEN <<(initialDuration - remaining) * 100, initialDuration>>
    ELSE <<0, 1>>

\* ----------------------------------------------------------- useStopwatch
StandingStart(s, status) ==
    IF status \in {"idle", "paused"} THEN [s EXCEPT !.standingStatus = "running"] ELSE s

StandingPause(s, status) ==
    IF status = "running" THEN [s EXCEPT !.standingStatus = "paused"] ELSE s

StandingStop(s) == [s EXCEPT !.standingStatus = "idle", !.timeElapsed = 0]

StandingReset(s) == [s EXCEPT !.standingStatus = "idle", !.timeElapsed = 0]

\* A tick that counts two seconds.
StandingTickTwice(s) == [s EXCEPT !.timeElapsed = s.timeElapsed + 2]

StandingTick(s) == [s EXCEPT !.timeElapsed = s.timeElapsed + 1]

\* ------------------------------------------------------------- useSpeech

IsEnglish(voice) == Len(voice.lang) > 0 /\ Head(voice.lang) = "en"

\* updateVoices: the English voices when there are any, otherwise all.
UpdateVoices(list) ==
    LET englishVoices == SelectSeq(list, IsEnglish)
    IN  IF Len(englishVoices) > 0 THEN englishVoices ELSE list

\* name.includes(preferred), on word sequences.
Includes(name, preferred) ==
    \E i \in 0..(Len(name) - Len(preferred)) :
        SubSeq(name, i + 1, i + Len(preferred)) = preferred

preferredVoices ==
    <<<<"Google", "US", "English">>, <<"Microsoft", "Zira">>, <<"Alex">>, <<"Samantha">>>>

\* A search that takes the first listed voice matching any allow-list entry.
FirstPreferredAnyEntry(list, k) ==
    LET hits == SelectSeq(list, LAMBDA v :
                    \E j \in 1..Len(preferredVoices) :
                        Includes(v.name, preferredVoices[j]))
    IN  IF Len(hits) > 0 THEN hits[1].voiceURI
        ELSE IF Len(list) > 0 THEN list[1].voiceURI ELSE NoVoice

RECURSIVE FirstPreferred(_, _)
FirstPreferred(list, k) ==
    IF k > Len(preferredVoices) THEN
        IF Len(list) > 0 THEN list[1].voiceURI ELSE NoVoice
    ELSE
        LET hits == SelectSeq(list, LAMBDA v : Includes(v.name, preferredVoices[k]))
        IN  IF Len(hits) > 0 THEN hits[1].voiceURI ELSE FirstPreferred(list, k + 1)

GetDefaultVoice(list) ==
    IF Len(list) = 0 THEN NoVoice ELSE FirstPreferred(list, 1)

\* speechSynthesis.cancel(): the platform drops every utterance it holds.
SynthCancel(s) == [s EXCEPT !.synthQueue = 0]

\* A speak that tests neither the support nor the enabled flag.
SpeakUnconditional(s, supported, opts) ==
    LET c == SynthCancel(s)
    IN  [c EXCEPT !.speakTimeouts =
            Append(c.speakTimeouts, [advanced |-> opts.advanced])]

\* speak, as created by a render whose isSupported was `supported`: cancel now,
\* hand the utterance to the platform 100 ms later.
Speak(s, supported, opts) ==
    IF ~supported \/ ~opts.enabled THEN s
    ELSE LET c == SynthCancel(s)
         IN  [c EXCEPT !.speakTimeouts =
                 Append(c.speakTimeouts, [advanced |-> opts.advanced])]

\* The deferred callback of speak: speechSynthesis.speak(utterance).
SpeakDeferred(s) ==
    [s EXCEPT !.speakTimeouts = Tail(s.speakTimeouts),
              !.synthQueue = s.synthQueue + 1]

\* stop, as created by a render whose isSupported was `supported`.
SpeechStop(s, supported) ==
    IF supported /\ s.synthQueue > 0 THEN SynthCancel(s) ELSE s

\* error: null, or one of the three messages the hook produces.
NoError == "null"
NotSupportedError == "Speech synthesis is not supported in this browser"
FailedToSpeak == "Failed to speak"
SpeechError == "Speech error"

\* The announcer after the support probe of the first render.  started: the
\* platform has begun speaking the utterance at the head of its queue.
\* cancelled: error events of cancelled utterances not delivered yet.
\* requested: the voice of each pending deferred utterance, oldest first.
\* utterance: the voice asked for and the voice set on the last utterance
\* handed to the platform.  uncaught: an exception has left the hook uncaught.
AnnouncerInit(supported) ==
    [isSpeaking |-> FALSE,
     error |-> IF supported THEN NoError ELSE NotSupportedError,
     started |-> FALSE, cancelled |-> 0, requested |-> <<>>,
     utterance |-> [requested |-> NoVoice, voice |-> NoVoice],
     uncaught |-> FALSE]

\* voice.name === id: a voice id is a single word.
NameIs(name, id) == name = <<id>>

\* A lookup that sets whatever was asked for.
FindVoiceUnchecked(list, id) == id

\* The voice speak sets on the utterance: the first platform voice whose
\* voiceURI or name is the one asked for, none when there is no such voice.
FindVoice(list, id) ==
    IF id = NoVoice THEN NoVoice
    ELSE LET hits == SelectSeq(list, LAMBDA v : v.voiceURI = id \/ NameIs(v.name, id))
         IN  IF Len(hits) > 0 THEN hits[1].voiceURI ELSE NoVoice

\* utterance.onstart
OnStart(s) ==
    [s EXCEPT !.announcer.isSpeaking = TRUE, !.announcer.error = NoError]

\* utterance.onend
OnEnd(s) == [s EXCEPT !.announcer.isSpeaking = FALSE]

\* utterance.onerror
OnError(s) ==
    [s EXCEPT !.announcer.isSpeaking = FALSE, !.announcer.error = SpeechError]

\* The platform's side of cancel(): every utterance it held will report an
\* error event (canceled or interrupted), and nothing is being spoken.
CancelEvents(s, held) ==
    [s EXCEPT !.announcer.cancelled = @ + held, !.announcer.started = FALSE]

\* speak with its published state.  cancelThrows: speechSynthesis.cancel()
\* throws, which the try block catches.
SpeakCall(s, supported, opts, cancelThrows) ==
    IF ~supported \/ ~opts.enabled THEN s
    ELSE IF cancelThrows THEN [s EXCEPT !.announcer.error = FailedToSpeak]
    ELSE LET c == CancelEvents(Speak(s, supported, opts), s.synthQueue)
         IN  [c EXCEPT !.announcer.requested = Append(@, opts.voice)]

\* The deferred callback of speak with its published state.  throws: building
\* the utterance or handing it to the platform throws; the callback runs
\* outside the try block of speak, so nothing catches it.
SpeakCallback(s, throws) ==
    LET t == [s EXCEPT !.speakTimeouts = Tail(@), !.announcer.requested = Tail(@)]
    IN  IF throws
        THEN [t EXCEPT !.announcer.uncaught = TRUE]
        ELSE [SpeakDeferred(s) EXCEPT
                 !.announcer.requested = Tail(@),
                 !.announcer.utterance =
                     [requested |-> Head(s.announcer.requested),
                      voice |-> FindVoice(s.platformVoices,
                                          Head(s.announcer.requested))]]

\* A stop that clears isSpeaking and leaves the platform's queue alone.
StopCallKeepsQueue(s, supported) ==
    IF supported /\ s.synthQueue > 0
    THEN [s EXCEPT !.announcer.isSpeaking = FALSE]
    ELSE s

\* stop with its published state.
StopCall(s, supported) ==
    IF supported /\ s.synthQueue > 0
    THEN [CancelEvents(SpeechStop(s, supported), s.synthQueue)
             EXCEPT !.announcer.isSpeaking = FALSE]
    ELSE s

\* --------------------------------------------- StandingDeskTimer: effects
\* History: the session has advanced; speech still pending belongs to the past.
MarkAdvanced(s) ==
    [s EXCEPT
        !.speechTimeouts = [i \in 1..Len(s.speechTimeouts) |->
                               [s.speechTimeouts[i] EXCEPT !.advanced = TRUE]],
        !.speakTimeouts = [i \in 1..Len(s.speakTimeouts) |->
                               [s.speakTimeouts[i] EXCEPT !.advanced = TRUE]]]

\* History: the countdown is out of Completed; the next completion counts anew.
ForgetCompletion(s) ==
    [s EXCEPT !.announceCount = 0, !.speechCount = 0, !.dismissed = "none"]

\* The announce branch of the completion effect: raise the guard and the alert,
\* schedule the speech call (300 ms) and arm the dismissal timer (15 s), whose
\* callback closes over this render's standing.start.
Announce(s) ==
    LET a == [s EXCEPT !.hasAnnouncedRef = TRUE,
                       !.showAlert = TRUE,
                       !.announceCount = Min(s.announceCount + 1, 2),
                       !.alertTimer = [armed |-> TRUE, startStatus |-> s.standingStatus]]
    IN  IF s.settings.speechEnabled /\ s.isSupported
        THEN [a EXCEPT !.speechTimeouts =
                           Append(s.speechTimeouts,
                                  [enabled |-> s.settings.speechEnabled,
                                   supported |-> s.isSupported,
                                   advanced |-> FALSE]),
                       !.speechCount = Min(s.speechCount + 1, 2)]
        ELSE a

\* The body without the announced-once guard.
CompletionBodyUnguarded(s) ==
    IF s.timerStatus # "completed"
    THEN ForgetCompletion([s EXCEPT !.hasAnnouncedRef = FALSE])
    ELSE Announce(s)

\* A body that leaves the guard as it is when the countdown is not Completed.
CompletionBodyKeepsGuard(s) ==
    IF s.timerStatus # "completed"
    THEN ForgetCompletion(s)
    ELSE IF s.hasAnnouncedRef
         THEN s
         ELSE Announce(s)

\* The completion effect's body, after the previous run's cleanup.
CompletionBody(s) ==
    IF s.timerStatus # "completed"
    THEN ForgetCompletion([s EXCEPT !.hasAnnouncedRef = FALSE])
    ELSE IF s.hasAnnouncedRef
         THEN s
         ELSE Announce(s)

\* A run of the completion effect: the cleanup clears the dismissal timer the
\* previous run armed, then the body runs.
CompletionEffect(s) == CompletionBody([s EXCEPT !.alertTimer = NoTimer])

\* What the completion effect depends on: timer.status, timer.reset
\* (initialDuration), the speech settings, speech.isSupported/speak/stop
\* (isSupported) and standing.start (the stopwatch's status).
CompletionDeps(s) ==
    <<s.timerStatus, s.settings.timerDuration, s.settings.speechEnabled,
      s.settings.selectedVoice, s.isSupported, s.standingStatus>>

\* The duration sync effect: timer.setDuration(settings.timerDuration); its
\* dependencies are the duration and setDuration, re-created with the status.
SyncDeps(s) == <<s.settings.timerDuration, s.timerStatus>>

\* The sync effect left out.
SyncEffectSkipped(s) == s

SyncEffect(s) == TimerSetDuration(s, s.timerStatus, s.settings.timerDuration)

\* The default voice effect.
VoiceDeps(s) == <<s.voices, s.settings.selectedVoice>>

\* A default voice effect that does not look at the selected voice.
DefaultVoiceEffectAlways(s) ==
    IF Len(s.voices) > 0
    THEN [s EXCEPT !.settings.selectedVoice = GetDefaultVoice(s.voices)]
    ELSE s

\* The effect "Set default voice if none selected".
DefaultVoiceEffect(s) ==
    IF s.settings.selectedVoice = NoVoice /\ Len(s.voices) > 0
    THEN LET defaultVoice == GetDefaultVoice(s.voices)
         IN  IF defaultVoice # NoVoice
             THEN [s EXCEPT !.settings.selectedVoice = defaultVoice]
             ELSE s
    ELSE s

\* useTimer's effect on [initialDuration, status].
DurationDeps(s) == <<s.settings.timerDuration, s.timerStatus>>

\* One render: every effect whose dependencies differ from the previous
\* render's runs, in the order the hooks are called.
RenderEffects(prev, s) ==
    LET t1 == IF prev.timerStatus # s.timerStatus THEN TimerIntervalEffect(s) ELSE s
        t2 == IF prev.standingStatus # s.standingStatus
              THEN StandingIntervalEffect(t1) ELSE t1
        s1 == IF DurationDeps(prev) # DurationDeps(s) THEN TimerDurationEffect(t2) ELSE t2
        s2 == IF CompletionDeps(prev) # CompletionDeps(s) THEN CompletionEffect(s1) ELSE s1
        s3 == IF SyncDeps(prev) # SyncDeps(s) THEN SyncEffect(s2) ELSE s2
    IN  IF VoiceDeps(prev) # VoiceDeps(s) THEN DefaultVoiceEffect(s3) ELSE s3

AllDeps(s) == <<DurationDeps(s), CompletionDeps(s), SyncDeps(s), VoiceDeps(s)>>

\* Renders until no effect changes what a render reads.
RECURSIVE Effects(_, _)
Effects(prev, s) ==
    LET r == RenderEffects(prev, s)
    IN  IF AllDeps(r) = AllDeps(s) THEN r ELSE Effects(s, r)

\* The state the next task finds.
Assign(s) ==
    /\ timeRemaining' = s.timeRemaining
    /\ timerStatus' = s.timerStatus
    /\ timeElapsed' = s.timeElapsed
    /\ standingStatus' = s.standingStatus
    /\ settings' = s.settings
    /\ showAlert' = s.showAlert
    /\ hasAnnouncedRef' = s.hasAnnouncedRef
    /\ isSupported' = s.isSupported
    /\ voices' = s.voices
    /\ platformVoices' = s.platformVoices
    /\ voicesListener' = s.voicesListener
    /\ alertTimer' = s.alertTimer
    /\ speechTimeouts' = s.speechTimeouts
    /\ speakTimeouts' = s.speakTimeouts
    /\ synthQueue' = s.synthQueue
    /\ announceCount' = s.announceCount
    /\ speechCount' = s.speechCount
    /\ dismissed' = s.dismissed
    /\ lastOp' = s.lastOp
    /\ ticks' = s.ticks
    /\ cleanRun' = s.cleanRun
    /\ plainRun' = s.plainRun
    /\ idleSet' = s.idleSet
    /\ announcer' = s.announcer
    /\ intervals' = s.intervals
    /\ sessionCount' = s.sessionCount
    /\ mounted' = s.mounted

\* The task ends, within the bounds on what is pending.
Commit(s) ==
    /\ Len(s.speechTimeouts) <= MaxPending
    /\ Len(s.speakTimeouts) <= MaxPending
    /\ s.synthQueue <= MaxQueue
    /\ Assign(s)

\* A handler ran from state Cur and left s: render, run the effects, commit.
Finish(s) == Commit(Effects(Cur, [s EXCEPT !.lastOp = "other"]))

\* The same, for an operation the history names.
FinishOp(s, op) == Commit(Effects(Cur, [s EXCEPT !.lastOp = op]))

\* -------------------------------------------- StandingDeskTimer: handlers
\* dismissAlert, of the render whose state is s.
DismissAlertHandler(s) ==
    LET s1 == [s EXCEPT !.showAlert = FALSE]
        s2 == SpeechStop(s1, s.isSupported)
        s3 == [s2 EXCEPT !.settings.currentSession = "standing"]
        s4 == StandingReset(s3)
        s5 == StandingStart(s4, s.standingStatus)
    IN  [s5 EXCEPT !.hasAnnouncedRef = FALSE]

\* The dismissal timer's callback; standing.start is the one of the render
\* that armed the timer.
AlertTimerCallback(s) ==
    LET s1 == [s EXCEPT !.showAlert = FALSE, !.alertTimer = NoTimer]
        s2 == SpeechStop(s1, s.isSupported)
        s3 == [s2 EXCEPT !.settings.currentSession = "standing"]
        s4 == StandingReset(s3)
        s5 == StandingStart(s4, s.alertTimer.startStatus)
    IN  [s5 EXCEPT !.hasAnnouncedRef = FALSE]

\* handleToggleMode without timer.stop() in the sitting branch.
HandleToggleModeNoStop(s) ==
    LET s1 == SpeechStop(s, s.isSupported)
    IN  IF s.settings.currentSession = "sitting"
        THEN LET s3 == StandingReset(s1)
                 s4 == [s3 EXCEPT !.settings.currentSession = "standing"]
             IN  StandingStart(s4, s.standingStatus)
        ELSE LET s2 == StandingStop(s1)
                 s3 == StandingReset(s2)
                 s4 == TimerReset(s3, s.settings.timerDuration)
             IN  [s4 EXCEPT !.settings.currentSession = "sitting"]

\* handleToggleMode without timer.reset() in the standing branch.
HandleToggleModeNoReset(s) ==
    LET s1 == SpeechStop(s, s.isSupported)
    IN  IF s.settings.currentSession = "sitting"
        THEN LET s2 == TimerStop(s1, s.settings.timerDuration)
                 s3 == StandingReset(s2)
                 s4 == [s3 EXCEPT !.settings.currentSession = "standing"]
             IN  StandingStart(s4, s.standingStatus)
        ELSE LET s2 == StandingStop(s1)
                 s3 == StandingReset(s2)
             IN  [s3 EXCEPT !.settings.currentSession = "sitting"]

\* handleToggleMode, of the render whose state is s.
HandleToggleModeHandler(s) ==
    LET s1 == SpeechStop(s, s.isSupported)
    IN  IF s.settings.currentSession = "sitting"
        THEN LET s2 == TimerStop(s1, s.settings.timerDuration)
                 s3 == StandingReset(s2)
                 s4 == [s3 EXCEPT !.settings.currentSession = "standing"]
             IN  StandingStart(s4, s.standingStatus)
        ELSE LET s2 == StandingStop(s1)
                 s3 == StandingReset(s2)
                 s4 == TimerReset(s3, s.settings.timerDuration)
             IN  [s4 EXCEPT !.settings.currentSession = "sitting"]

\* A preset handler that stores whatever value it is given.
HandleTimerPresetChangeAnyValue(s, value) ==
    [s EXCEPT !.settings.timerDuration = value]

\* handleTimerPresetChange: a value that is no preset is ignored.
HandleTimerPresetChangeHandler(s, value) ==
    IF value \in DEFAULT_TIMER_PRESETS
    THEN [s EXCEPT !.settings.timerDuration = value]
    ELSE s

\* DevPanel.handleFastForward
HandleFastForwardHandler(s, seconds) ==
    LET s1 == TimerSetDuration(s, s.timerStatus, seconds)
    IN  IF s.timerStatus # "running" THEN TimerStart(s1, s.timerStatus) ELSE s1

\* DevPanel.handleForceComplete
HandleForceCompleteHandler(s) ==
    TimerStart(TimerSetDuration(s, s.timerStatus, 1), s.timerStatus)

\* The speech-start timeout's callback: speech.speak with the settings of the
\* render that scheduled it.
SpeechTimeoutCallback(s) ==
    LET h == Head(s.speechTimeouts)
    IN  Speak([s EXCEPT !.speechTimeouts = Tail(s.speechTimeouts)], h.supported,
              [enabled |-> h.enabled, advanced |-> h.advanced])

\* History: an operation other than start, pause and the tick touched the
\* countdown.
EndPlainRun(s) == [s EXCEPT !.plainRun = FALSE, !.ticks = 0]

\* History: start was called; from Idle a run begins.
BeginPlainRun(s, status) ==
    IF status = "idle"
    THEN [s EXCEPT !.plainRun = (s.timeRemaining = s.settings.timerDuration),
                   !.ticks = 0]
    ELSE s

\* History: a tick was delivered to a running countdown.
CountTick(s) ==
    IF s.plainRun THEN [s EXCEPT !.ticks = Min(s.ticks + 1, MaxDuration + 1)] ELSE s

\* ---------------------------------------------------------------- actions
\* Start / Resume button (sitting, idle or paused).
Start ==
    /\ settings.currentSession = "sitting"
    /\ timerStatus \in {"idle", "paused"}
    /\ Finish(TimerStart(BeginPlainRun(Cur, timerStatus), timerStatus))

\* Pause button (sitting, neither idle nor paused).
Pause ==
    /\ settings.currentSession = "sitting"
    /\ timerStatus \notin {"idle", "paused"}
    /\ Finish(TimerPause(Cur, timerStatus))

\* Stop button (sitting, running or paused).
Stop ==
    /\ settings.currentSession = "sitting"
    /\ timerStatus \in {"running", "paused"}
    /\ Finish(TimerStop(EndPlainRun(Cur), settings.timerDuration))

\* Reset button of the main view (sitting) or of the developer panel.
Reset == Finish(TimerReset(EndPlainRun(Cur), settings.timerDuration))

\* The standing view's Start / Pause button.
StandingStartPause ==
    /\ settings.currentSession = "standing"
    /\ Finish(IF standingStatus = "running"
              THEN StandingPause(Cur, standingStatus)
              ELSE StandingStart(Cur, standingStatus))

\* The standing view's Reset button.
StandingResetButton ==
    /\ settings.currentSession = "standing"
    /\ Finish(StandingReset(Cur))

\* "Switch to standing" / "Switch to sitting".
HandleToggleMode ==
    FinishOp(MarkAdvanced(HandleToggleModeHandler(EndPlainRun(Cur))),
             IF settings.currentSession = "sitting" THEN "toggleToStanding"
             ELSE "toggleToSitting")

\* The alert's button.
DismissAlert ==
    /\ showAlert
    /\ FinishOp([MarkAdvanced(DismissAlertHandler(Cur)) EXCEPT !.dismissed = "manual"],
                "dismissAlert")

\* The dismissal timer fires, 15 s after it was armed: every 300 ms and 100 ms
\* timeout pending by then was armed no later and has run.
AlertTimerFires ==
    /\ alertTimer.armed
    /\ speechTimeouts = <<>>
    /\ speakTimeouts = <<>>
    /\ FinishOp([MarkAdvanced(AlertTimerCallback(Cur)) EXCEPT
                    !.dismissed = IF dismissed \in {"manual", "manualThenTimer"}
                                  THEN "manualThenTimer" ELSE "timer"],
                "alertTimer")

\* The duration Select (disabled while the countdown runs).
HandleTimerPresetChange ==
    /\ timerStatus # "running"
    /\ \E value \in DEFAULT_TIMER_PRESETS \cup {1} :
          Finish(HandleTimerPresetChangeHandler(EndPlainRun(Cur), value))

\* The voice Select: one of the published voices.
HandleVoiceChange ==
    /\ settings.speechEnabled /\ isSupported
    /\ \E i \in 1..Len(voices) :
          Finish([Cur EXCEPT !.settings.selectedVoice = voices[i].voiceURI])

\* The voice notifications Switch.
HandleSpeechToggle ==
    Finish([Cur EXCEPT !.settings.speechEnabled = ~settings.speechEnabled])

HandleFastForward ==
    \E seconds \in fastForwardOptions :
        Finish(HandleFastForwardHandler(EndPlainRun(Cur), seconds))

HandleForceComplete == Finish(HandleForceCompleteHandler(EndPlainRun(Cur)))

\* The countdown's interval fires, 1 s after the countdown started or ticked:
\* the 300 ms and 100 ms timeouts of an earlier completion have run by then.
CountdownTick ==
    /\ intervals.timer.live > 0
    /\ speechTimeouts = <<>>
    /\ speakTimeouts = <<>>
    /\ Finish(TimerTick(CountTick(Cur)))

\* The stopwatch's interval fires.
StopwatchTick ==
    /\ intervals.standing.live > 0
    /\ timeElapsed < MaxElapsed
    /\ Finish(StandingTick(Cur))

\* A speech-start timeout fires.
SpeechTimeoutFires ==
    /\ speechTimeouts # <<>>
    /\ Finish(SpeechTimeoutCallback(Cur))

\* speak's deferred callback fires: the utterance reaches the platform.
SpeakTimeoutFires ==
    /\ speakTimeouts # <<>>
    /\ Finish(SpeakDeferred(Cur))

\* The platform finishes the utterance it is speaking.
UtteranceEnds ==
    /\ synthQueue > 0
    /\ Finish([Cur EXCEPT !.synthQueue = synthQueue - 1])

\* The platform's voice list changes; a registered listener republishes it.
VoicesChanged ==
    /\ isSupported
    /\ \E list \in PlatformVoiceLists :
          /\ list # platformVoices
          /\ Finish([Cur EXCEPT !.platformVoices = list,
                                !.voices = IF voicesListener THEN UpdateVoices(list)
                                           ELSE voices])

\* ------------------------------------------------------------------- Init
InitialState(s) ==
    /\ timeRemaining = s.timeRemaining
    /\ timerStatus = s.timerStatus
    /\ timeElapsed = s.timeElapsed
    /\ standingStatus = s.standingStatus
    /\ settings = s.settings
    /\ showAlert = s.showAlert
    /\ hasAnnouncedRef = s.hasAnnouncedRef
    /\ isSupported = s.isSupported
    /\ voices = s.voices
    /\ platformVoices = s.platformVoices
    /\ voicesListener = s.voicesListener
    /\ alertTimer = s.alertTimer
    /\ speechTimeouts = s.speechTimeouts
    /\ speakTimeouts = s.speakTimeouts
    /\ synthQueue = s.synthQueue
    /\ announceCount = s.announceCount
    /\ speechCount = s.speechCount
    /\ dismissed = s.dismissed
    /\ lastOp = s.lastOp
    /\ ticks = s.ticks
    /\ cleanRun = s.cleanRun
    /\ plainRun = s.plainRun
    /\ idleSet = s.idleSet
    /\ announcer = s.announcer
    /\ intervals = s.intervals
    /\ sessionCount = s.sessionCount
    /\ mounted = s.mounted

\* The state after the first render and its effects: the persisted settings
\* are read, the support probe has run, loadVoices has published the voices
\* or registered its listener, and the default voice effect has run.
Init ==
    \E sup \in BOOLEAN, list \in PlatformVoiceLists, d \in DEFAULT_TIMER_PRESETS,
       en \in BOOLEAN, v \in PersistedVoices, k \in SessionKind :
        /\ (~sup => list = <<>>)
        /\ InitialState(DefaultVoiceEffect(
              [timeRemaining |-> d, timerStatus |-> "idle",
               timeElapsed |-> 0, standingStatus |-> "idle",
               settings |-> [timerDuration |-> d, speechEnabled |-> en,
                             selectedVoice |-> v, currentSession |-> k],
               showAlert |-> FALSE, hasAnnouncedRef |-> FALSE, isSupported |-> sup,
               voices |-> IF sup /\ Len(list) > 0 THEN UpdateVoices(list) ELSE <<>>,
               platformVoices |-> list,
               voicesListener |-> sup /\ Len(list) = 0,
               alertTimer |-> NoTimer, speechTimeouts |-> <<>>,
               speakTimeouts |-> <<>>, synthQueue |-> 0,
               announceCount |-> 0, speechCount |-> 0, dismissed |-> "none",
               lastOp |-> "other", ticks |-> 0, cleanRun |-> FALSE,
               plainRun |-> FALSE, idleSet |-> 0,
               announcer |-> AnnouncerInit(sup),
               intervals |-> NoIntervals,
               sessionCount |-> DefaultSessionCount,
               mounted |-> TRUE]))

Next ==
    \/ Start
    \/ Pause
    \/ Stop
    \/ Reset
    \/ StandingStartPause
    \/ StandingResetButton
    \/ HandleToggleMode
    \/ DismissAlert
    \/ AlertTimerFires
    \/ HandleTimerPresetChange
    \/ HandleVoiceChange
    \/ HandleSpeechToggle
    \/ HandleFastForward
    \/ HandleForceComplete
    \/ CountdownTick
    \/ StopwatchTick
    \/ SpeechTimeoutFires
    \/ SpeakTimeoutFires
    \/ UtteranceEnds
    \/ VoicesChanged

Spec == Init /\ [][Next]_vars

\* ------------------------------------- the orchestrator and its unmount
\* The two-engine orchestrator with the component's unmount: React runs the
\* cleanup of every effect, and what no cleanup clears still fires.

\* The effect cleanups at unmount: the completion effect clears its dismissal
\* timer, both hooks clear the interval their ref names; the speech-start
\* timeout and speak's deferred callback have no cleanup.
UnmountCleanup(s) ==
    [s EXCEPT !.alertTimer = NoTimer,
              !.intervals.timer = ClearRef(@),
              !.intervals.standing = ClearRef(@)]

Unmount ==
    /\ mounted
    /\ Commit(UnmountCleanup([Cur EXCEPT !.mounted = FALSE, !.lastOp = "unmount"]))

\* A callback armed before the unmount runs after it: no render follows.
AfterUnmount ==
    /\ ~mounted
    /\ \/ /\ speechTimeouts # <<>>
          /\ Commit(SpeechTimeoutCallback(Cur))
       \/ /\ speakTimeouts # <<>>
          /\ Commit(SpeakDeferred(Cur))
       \/ /\ synthQueue > 0
          /\ Commit([Cur EXCEPT !.synthQueue = synthQueue - 1])
       \/ /\ intervals.timer.live > 0
          /\ Commit(TimerTick(Cur))
       \/ /\ intervals.standing.live > 0
          /\ timeElapsed < MaxElapsed
          /\ Commit(StandingTick(Cur))
       \/ /\ alertTimer.armed
          /\ Commit(AlertTimerCallback(Cur))

UnmountNext ==
    \/ mounted /\ Next
    \/ Unmount
    \/ AfterUnmount

UnmountSpec == Init /\ [][UnmountNext]_vars

\* ------------------------------------------------- the countdown alone
\* useTimer(initialDuration) by itself: its operations, its interval and its
\* own effect, for every duration up to MaxDuration.
EngineFinish(s, op) ==
    LET r == [s EXCEPT !.lastOp = op]
        i == IF timerStatus # r.timerStatus THEN TimerIntervalEffect(r) ELSE r
    IN  Commit(IF DurationDeps(Cur) # DurationDeps(r) THEN TimerDurationEffect(i) ELSE i)

EngineInit ==
    \E d \in 1..MaxDuration :
        InitialState(
            [timeRemaining |-> d, timerStatus |-> "idle",
             timeElapsed |-> 0, standingStatus |-> "idle",
             settings |-> [timerDuration |-> d, speechEnabled |-> FALSE,
                           selectedVoice |-> NoVoice, currentSession |-> "sitting"],
             showAlert |-> FALSE, hasAnnouncedRef |-> FALSE, isSupported |-> FALSE,
             voices |-> <<>>, platformVoices |-> <<>>, voicesListener |-> FALSE,
             alertTimer |-> NoTimer, speechTimeouts |-> <<>>,
             speakTimeouts |-> <<>>, synthQueue |-> 0,
             announceCount |-> 0, speechCount |-> 0, dismissed |-> "none",
             lastOp |-> "other", ticks |-> 0, cleanRun |-> FALSE,
             plainRun |-> FALSE, idleSet |-> 0,
             announcer |-> AnnouncerInit(FALSE),
             intervals |-> NoIntervals,
             sessionCount |-> DefaultSessionCount,
             mounted |-> TRUE])

EngineStart ==
    EngineFinish(
        IF timerStatus = "idle"
        THEN [TimerStart(Cur, timerStatus) EXCEPT
                 !.ticks = 0, !.cleanRun = (timeRemaining = settings.timerDuration)]
        ELSE TimerStart(Cur, timerStatus),
        "start")

EnginePause ==
    EngineFinish([TimerPause(Cur, timerStatus) EXCEPT
                     !.cleanRun = cleanRun /\ timerStatus # "running"],
                 "pause")

EngineStop ==
    EngineFinish([TimerStop(Cur, settings.timerDuration) EXCEPT
                     !.ticks = 0, !.cleanRun = FALSE],
                 "stop")

EngineReset ==
    EngineFinish([TimerReset(Cur, settings.timerDuration) EXCEPT
                     !.ticks = 0, !.cleanRun = FALSE],
                 "reset")

EngineSetDuration ==
    \E duration \in 1..MaxDuration :
        EngineFinish([TimerSetDuration(Cur, timerStatus, duration) EXCEPT
                         !.cleanRun = FALSE,
                         !.idleSet = IF timerStatus = "idle" THEN duration ELSE 0],
                     "setDuration")

\* The component re-renders with another initialDuration.
EngineRerender ==
    \E d \in 1..MaxDuration :
        /\ d # settings.timerDuration
        /\ EngineFinish([Cur EXCEPT !.settings.timerDuration = d,
                                     !.cleanRun = FALSE, !.idleSet = 0],
                        "rerender")

EngineTick ==
    /\ intervals.timer.live > 0
    /\ EngineFinish([TimerTick(Cur) EXCEPT !.ticks = Min(ticks + 1, MaxDuration + 1)],
                    "tick")

EngineNext ==
    \/ EngineStart
    \/ EnginePause
    \/ EngineStop
    \/ EngineReset
    \/ EngineSetDuration
    \/ EngineRerender
    \/ EngineTick

EngineSpec == EngineInit /\ [][EngineNext]_vars

\* -------------------------------------------------- the stopwatch alone
\* useStopwatch by itself: its four operations and its interval.
StopwatchFinish(s, op) ==
    LET r == [s EXCEPT !.lastOp = op]
    IN  Assign(IF standingStatus # r.standingStatus THEN StandingIntervalEffect(r) ELSE r)

StopwatchInit ==
    InitialState(
        [timeRemaining |-> PresetUnit, timerStatus |-> "idle",
         timeElapsed |-> 0, standingStatus |-> "idle",
         settings |-> [timerDuration |-> PresetUnit, speechEnabled |-> FALSE,
                       selectedVoice |-> NoVoice, currentSession |-> "standing"],
         showAlert |-> FALSE, hasAnnouncedRef |-> FALSE, isSupported |-> FALSE,
         voices |-> <<>>, platformVoices |-> <<>>, voicesListener |-> FALSE,
         alertTimer |-> NoTimer, speechTimeouts |-> <<>>,
         speakTimeouts |-> <<>>, synthQueue |-> 0,
         announceCount |-> 0, speechCount |-> 0, dismissed |-> "none",
         lastOp |-> "other", ticks |-> 0, cleanRun |-> FALSE,
         plainRun |-> FALSE, idleSet |-> 0,
         announcer |-> AnnouncerInit(FALSE),
         intervals |-> NoIntervals,
         sessionCount |-> DefaultSessionCount,
         mounted |-> TRUE])

StopwatchStart == StopwatchFinish(StandingStart(Cur, standingStatus), "start")

StopwatchPause == StopwatchFinish(StandingPause(Cur, standingStatus), "pause")

StopwatchStop == StopwatchFinish(StandingStop(Cur), "stop")

StopwatchReset == StopwatchFinish(StandingReset(Cur), "reset")

\* The interval fires; it exists only while the status is running.
StopwatchIntervalFires ==
    /\ intervals.standing.live > 0
    /\ timeElapsed < MaxStandingTicks
    /\ StopwatchFinish(StandingTick(Cur), "tick")

StopwatchNext ==
    \/ StopwatchStart
    \/ StopwatchPause
    \/ StopwatchStop
    \/ StopwatchReset
    \/ StopwatchIntervalFires

StopwatchSpec == StopwatchInit /\ [][StopwatchNext]_vars

\* -------------------------------------------------- the announcer alone
\* useSpeech by itself: speak and stop called by a component, the deferred
\* utterance, the platform finishing an utterance and changing its voices.
SpeechFinish(s, op) == Assign([s EXCEPT !.lastOp = op])

SpeechInit ==
    \E sup \in BOOLEAN, list \in PlatformVoiceLists :
        /\ (~sup => list = <<>>)
        /\ InitialState(
              [timeRemaining |-> PresetUnit, timerStatus |-> "idle",
               timeElapsed |-> 0, standingStatus |-> "idle",
               settings |-> [timerDuration |-> PresetUnit, speechEnabled |-> TRUE,
                             selectedVoice |-> NoVoice, currentSession |-> "sitting"],
               showAlert |-> FALSE, hasAnnouncedRef |-> FALSE, isSupported |-> sup,
               voices |-> IF sup /\ Len(list) > 0 THEN UpdateVoices(list) ELSE <<>>,
               platformVoices |-> list,
               voicesListener |-> sup /\ Len(list) = 0,
               alertTimer |-> NoTimer, speechTimeouts |-> <<>>,
               speakTimeouts |-> <<>>, synthQueue |-> 0,
               announceCount |-> 0, speechCount |-> 0, dismissed |-> "none",
               lastOp |-> "other", ticks |-> 0, cleanRun |-> FALSE,
               plainRun |-> FALSE, idleSet |-> 0,
               announcer |-> AnnouncerInit(sup),
               intervals |-> NoIntervals,
               sessionCount |-> DefaultSessionCount,
               mounted |-> TRUE])

\* The voices a component asks speak for: none, a listed voice by id or by
\* name, and one the platform does not list.
VoiceRequests == {NoVoice, "daniel", "Samantha", "amelie"}

\* A component calls speak; the platform's cancel() may throw.
SpeechSpeak ==
    \E en \in BOOLEAN, voice \in VoiceRequests, cancelThrows \in BOOLEAN :
        /\ Len(speakTimeouts) < MaxSpeakCalls
        /\ announcer.cancelled + synthQueue <= MaxCancelled
        /\ cancelThrows => (isSupported /\ en)
        /\ SpeechFinish(SpeakCall(Cur, isSupported,
                                  [enabled |-> en, advanced |-> FALSE,
                                   voice |-> voice],
                                  cancelThrows),
                        IF cancelThrows THEN "speakThrows" ELSE "speak")

\* speak's deferred callback runs, 100 ms after the call; building the
\* utterance or handing it over may throw.
SpeechDeferredFires ==
    \E throws \in BOOLEAN :
        /\ speakTimeouts # <<>>
        /\ SpeechFinish(SpeakCallback(Cur, throws),
                        IF throws THEN "deferredThrows" ELSE "deferred")

\* A component calls stop.
SpeechStopCall ==
    /\ announcer.cancelled + synthQueue <= MaxCancelled
    /\ SpeechFinish(StopCall(Cur, isSupported), "stop")

\* The platform begins to speak the utterance at the head of its queue.
SpeechUtteranceStarts ==
    /\ synthQueue > 0
    /\ ~announcer.started
    /\ SpeechFinish(OnStart([Cur EXCEPT !.announcer.started = TRUE]), "onstart")

\* The platform finishes the utterance it is speaking.
SpeechUtteranceEnds ==
    /\ synthQueue > 0
    /\ announcer.started
    /\ SpeechFinish(OnEnd([Cur EXCEPT !.synthQueue = synthQueue - 1,
                                      !.announcer.started = FALSE]),
                    "onend")

\* The platform gives up the utterance at the head of its queue.
SpeechUtteranceFails ==
    /\ synthQueue > 0
    /\ SpeechFinish(OnError([Cur EXCEPT !.synthQueue = synthQueue - 1,
                                        !.announcer.started = FALSE]),
                    "onerror")

\* The platform delivers the error event of a cancelled utterance.
SpeechCancelledEvent ==
    /\ announcer.cancelled > 0
    /\ SpeechFinish(OnError([Cur EXCEPT !.announcer.cancelled = @ - 1]),
                    "oncancelled")

\* The platform's voice list changes.
SpeechVoicesChanged ==
    /\ isSupported
    /\ \E list \in PlatformVoiceLists :
          /\ list # platformVoices
          /\ SpeechFinish([Cur EXCEPT !.platformVoices = list,
                                      !.voices = IF voicesListener
                                                 THEN UpdateVoices(list)
                                                 ELSE voices],
                          "voiceschanged")

SpeechNext ==
    \/ SpeechSpeak
    \/ SpeechDeferredFires
    \/ SpeechStopCall
    \/ SpeechUtteranceStarts
    \/ SpeechUtteranceEnds
    \/ SpeechUtteranceFails
    \/ SpeechCancelledEvent
    \/ SpeechVoicesChanged

SpeechSpec == SpeechInit /\ [][SpeechNext]_vars

\* ------------------------------------------------- the voice loader alone
\* useSpeech's voice list by itself: loadVoices at the first render, the
\* platform's voiceschanged signal, and a caller asking for the default voice.

\* The lists the platform may report: up to MaxVoices distinct voices of the
\* catalog, in any order.
VoiceLists ==
    UNION {{[i \in 1..n |-> VoiceCatalog[f[i]]] :
              f \in {g \in [1..n -> 1..Len(VoiceCatalog)] :
                        \A i, j \in 1..n : i # j => g[i] # g[j]}} :
           n \in 0..MaxVoices}

VoicesFinish(s, op) == Assign([s EXCEPT !.lastOp = op])

VoicesInit ==
    \E list \in VoiceLists :
        InitialState(
            [timeRemaining |-> PresetUnit, timerStatus |-> "idle",
             timeElapsed |-> 0, standingStatus |-> "idle",
             settings |-> [timerDuration |-> PresetUnit, speechEnabled |-> TRUE,
                           selectedVoice |-> NoVoice, currentSession |-> "sitting"],
             showAlert |-> FALSE, hasAnnouncedRef |-> FALSE, isSupported |-> TRUE,
             voices |-> IF Len(list) > 0 THEN UpdateVoices(list) ELSE <<>>,
             platformVoices |-> list,
             voicesListener |-> Len(list) = 0,
             alertTimer |-> NoTimer, speechTimeouts |-> <<>>,
             speakTimeouts |-> <<>>, synthQueue |-> 0,
             announceCount |-> 0, speechCount |-> 0, dismissed |-> "none",
             lastOp |-> "other", ticks |-> 0, cleanRun |-> FALSE,
             plainRun |-> FALSE, idleSet |-> 0,
             announcer |-> AnnouncerInit(TRUE),
             intervals |-> NoIntervals,
             sessionCount |-> DefaultSessionCount,
             mounted |-> TRUE])

\* The platform changes its voice list and signals voiceschanged; updateVoices
\* runs if loadVoices registered it.
VoicesSignal ==
    /\ isSupported
    /\ \E list \in VoiceLists :
          VoicesFinish([Cur EXCEPT !.platformVoices = list,
                                   !.voices = IF voicesListener
                                              THEN UpdateVoices(list)
                                              ELSE voices],
                       "voiceschanged")

\* A caller asks for the default voice and keeps the answer as the selected
\* voice.
VoicesGetDefault ==
    /\ isSupported
    /\ VoicesFinish([Cur EXCEPT !.settings.selectedVoice = GetDefaultVoice(voices)],
                    "getDefaultVoice")

VoicesNext ==
    \/ VoicesSignal
    \/ VoicesGetDefault

VoicesSpec == VoicesInit /\ [][VoicesNext]_vars

\* --------------------------------------- the single-engine orchestrator
\* The StandingDeskTimer that owns one countdown and no stopwatch: the same
\* session countdown serves sitting and standing, and a dismissal cycles the
\* session kind.

\* What a render of the component reads: a change of any of these re-renders.
ReactState(s) ==
    <<s.timeRemaining, s.timerStatus, s.settings, s.sessionCount, s.showAlert,
      s.isSupported, s.voices, s.announcer.isSpeaking, s.announcer.error>>

\* The completion effect's body for a Completed countdown: raise the alert,
\* schedule the speech call (500 ms) and arm the dismissal timer (15 s).
SingleAnnounce(s) ==
    LET a == [s EXCEPT !.showAlert = TRUE,
                       !.announceCount = Min(s.announceCount + 1, 2),
                       !.alertTimer = [armed |-> TRUE, startStatus |-> "idle"]]
    IN  IF s.settings.speechEnabled /\ s.isSupported
        THEN [a EXCEPT !.speechTimeouts =
                           Append(s.speechTimeouts,
                                  [enabled |-> s.settings.speechEnabled,
                                   supported |-> s.isSupported,
                                   advanced |-> FALSE]),
                       !.speechCount = Min(s.speechCount + 1, 2)]
        ELSE a

\* A run of the completion effect: the cleanup of the previous run clears the
\* dismissal timer it armed, then the body runs.  Its dependencies include
\* the object useSpeech returns, which is new on every render, so it runs
\* after every render.
SingleCompletionEffect(s) ==
    LET c == [s EXCEPT !.alertTimer = NoTimer]
    IN  IF s.timerStatus # "completed" THEN ForgetCompletion(c)
        ELSE SingleAnnounce(c)

\* One render of the single-engine component and its effects, in the order
\* the hooks are called.
SingleRenderEffects(prev, s) ==
    LET s1 == IF prev.timerStatus # s.timerStatus THEN TimerIntervalEffect(s) ELSE s
        s2 == IF DurationDeps(prev) # DurationDeps(s) THEN TimerDurationEffect(s1) ELSE s1
        s3 == SingleCompletionEffect(s2)
        s4 == IF SyncDeps(prev) # SyncDeps(s) THEN SyncEffect(s3) ELSE s3
    IN  IF VoiceDeps(prev) # VoiceDeps(s) THEN DefaultVoiceEffect(s4) ELSE s4

\* Renders until a render's effects change nothing a render reads.
RECURSIVE SingleEffects(_, _)
SingleEffects(prev, s) ==
    LET r == SingleRenderEffects(prev, s)
    IN  IF ReactState(r) = ReactState(s) THEN r ELSE SingleEffects(s, r)

\* A task ran from state Cur and left s: if it changed what a render reads,
\* render and run the effects; then commit, within the bounds.
SingleFinish(s, op) ==
    LET r == [s EXCEPT !.lastOp = op]
        e == IF ReactState(r) # ReactState(Cur) THEN SingleEffects(Cur, r) ELSE r
    IN  /\ Len(e.speechTimeouts) <= MaxSpeechTimeouts
        /\ Len(e.speakTimeouts) <= MaxPending
        /\ e.synthQueue <= MaxQueue
        /\ e.announcer.cancelled <= MaxCancelled
        /\ Assign(e)

\* A dismissAlert that leaves the countdown alone.
SingleDismissAlertNoReset(s) ==
    [s EXCEPT !.showAlert = FALSE,
              !.settings.currentSession =
                  IF @ = "sitting" THEN "standing" ELSE "sitting",
              !.sessionCount = @ + 1]

\* dismissAlert
SingleDismissAlertHandler(s) ==
    LET s1 == [s EXCEPT !.showAlert = FALSE]
        s2 == TimerReset(s1, s.settings.timerDuration)
    IN  [s2 EXCEPT !.settings.currentSession =
                       IF @ = "sitting" THEN "standing" ELSE "sitting",
                   !.sessionCount = @ + 1]

\* The dismissal timer's callback.
SingleAlertTimerCallback(s) ==
    TimerReset([s EXCEPT !.showAlert = FALSE, !.alertTimer = NoTimer],
               s.settings.timerDuration)

\* The speech-start timeout's callback: speech.speak with the settings of the
\* render that scheduled it.
SingleSpeechTimeoutCallback(s) ==
    LET h == Head(s.speechTimeouts)
    IN  SpeakCall([s EXCEPT !.speechTimeouts = Tail(s.speechTimeouts)], h.supported,
                  [enabled |-> h.enabled, advanced |-> h.advanced,
                   voice |-> s.settings.selectedVoice],
                  FALSE)

SingleInit ==
    \E sup \in BOOLEAN, d \in DEFAULT_TIMER_PRESETS, en \in BOOLEAN, k \in SessionKind :
        InitialState(
            [timeRemaining |-> d, timerStatus |-> "idle",
             timeElapsed |-> 0, standingStatus |-> "idle",
             settings |-> [timerDuration |-> d, speechEnabled |-> en,
                           selectedVoice |-> NoVoice, currentSession |-> k],
             showAlert |-> FALSE, hasAnnouncedRef |-> FALSE, isSupported |-> sup,
             voices |-> <<>>, platformVoices |-> <<>>, voicesListener |-> sup,
             alertTimer |-> NoTimer, speechTimeouts |-> <<>>,
             speakTimeouts |-> <<>>, synthQueue |-> 0,
             announceCount |-> 0, speechCount |-> 0, dismissed |-> "none",
             lastOp |-> "other", ticks |-> 0, cleanRun |-> FALSE,
             plainRun |-> FALSE, idleSet |-> 0,
             announcer |-> AnnouncerInit(sup),
             intervals |-> NoIntervals,
             sessionCount |-> DefaultSessionCount,
             mounted |-> TRUE])

\* Start / Resume button (idle or paused).
SingleStart ==
    /\ timerStatus \in {"idle", "paused"}
    /\ SingleFinish(TimerStart(Cur, timerStatus), "start")

\* Pause button (neither idle nor paused).
SinglePause ==
    /\ timerStatus \notin {"idle", "paused"}
    /\ SingleFinish(TimerPause(Cur, timerStatus), "pause")

\* Stop button (running or paused).
SingleStop ==
    /\ timerStatus \in {"running", "paused"}
    /\ SingleFinish(TimerStop(Cur, settings.timerDuration), "stop")

\* Reset button.
SingleReset == SingleFinish(TimerReset(Cur, settings.timerDuration), "reset")

\* The countdown's interval fires, a second after the previous tick; the
\* speech timeouts armed by then have run.
SingleTick ==
    /\ intervals.timer.live > 0
    /\ speechTimeouts = <<>>
    /\ speakTimeouts = <<>>
    /\ SingleFinish(TimerTick(Cur), "tick")

\* The alert's Dismiss button.
SingleDismissAlert ==
    /\ showAlert
    /\ sessionCount < MaxSessionCount
    /\ SingleFinish(SingleDismissAlertHandler(Cur), "dismissAlert")

\* The dismissal timer fires, 15 s after the render that armed it; the speech
\* timeouts armed by then have run.
SingleAlertTimerFires ==
    /\ alertTimer.armed
    /\ speechTimeouts = <<>>
    /\ speakTimeouts = <<>>
    /\ SingleFinish(SingleAlertTimerCallback(Cur), "alertTimer")

\* The duration Select (disabled while the countdown runs).
SinglePresetChange ==
    /\ timerStatus # "running"
    /\ \E value \in DEFAULT_TIMER_PRESETS :
          SingleFinish(HandleTimerPresetChangeHandler(Cur, value), "preset")

\* The speech Switch.
SingleSpeechToggle ==
    SingleFinish([Cur EXCEPT !.settings.speechEnabled = ~@], "speechToggle")

\* A speech-start timeout fires.
SingleSpeechTimeoutFires ==
    /\ speechTimeouts # <<>>
    /\ SingleFinish(SingleSpeechTimeoutCallback(Cur), "speechTimeout")

\* speak's deferred callback runs.
SingleSpeakDeferredFires ==
    /\ speakTimeouts # <<>>
    /\ SingleFinish(SpeakCallback(Cur, FALSE), "deferred")

\* The platform begins to speak the utterance at the head of its queue.
SingleUtteranceStarts ==
    /\ synthQueue > 0
    /\ ~announcer.started
    /\ SingleFinish(OnStart([Cur EXCEPT !.announcer.started = TRUE]), "onstart")

\* The platform finishes the utterance it is speaking.
SingleUtteranceEnds ==
    /\ synthQueue > 0
    /\ announcer.started
    /\ SingleFinish(OnEnd([Cur EXCEPT !.synthQueue = synthQueue - 1,
                                      !.announcer.started = FALSE]),
                    "onend")

\* The platform delivers the error event of a cancelled utterance.
SingleCancelledEvent ==
    /\ announcer.cancelled > 0
    /\ SingleFinish(OnError([Cur EXCEPT !.announcer.cancelled = @ - 1]),
                    "oncancelled")

SingleNext ==
    \/ SingleStart
    \/ SinglePause
    \/ SingleStop
    \/ SingleReset
    \/ SingleTick
    \/ SingleDismissAlert
    \/ SingleAlertTimerFires
    \/ SinglePresetChange
    \/ SingleSpeechToggle
    \/ SingleSpeechTimeoutFires
    \/ SingleSpeakDeferredFires
    \/ SingleUtteranceStarts
    \/ SingleUtteranceEnds
    \/ SingleCancelledEvent

SingleSpec == SingleInit /\ [][SingleNext]_vars

\* progress equals pct.
ProgressIs(p, pct) == p[1] = pct * p[2]

\* Two progress values are equal.
SameProgress(p, q) == p[1] * q[2] = q[1] * p[2]

\* ----------------------------------------------------------------- claims

\* C1: for each entry of the countdown into Completed, the alert is raised and
\* a speech call is scheduled at most once until the countdown leaves
\* Completed, dismissals included.
C1_AnnouncedOncePerCompletion ==
    timerStatus = "completed" => (announceCount <= 1 /\ speechCount <= 1)

\* C2: while the countdown stays Completed and before any dismissal, re-running
\* the completion effect raises no second alert and schedules no second speech
\* call: exactly one announcement has been made, and the guard stays raised.
C2_ReobservingIsNoOp ==
    (timerStatus = "completed" /\ dismissed = "none") =>
        (announceCount = 1 /\ speechCount <= 1 /\ hasAnnouncedRef)

\* C2 witness: the effect has re-run on the raised guard (its cleanup cleared
\* the dismissal timer, its body returned early) after one announcement.
C2_Witness ==
    /\ timerStatus = "completed"
    /\ dismissed = "none"
    /\ announceCount = 1
    /\ speechCount = 1
    /\ ~alertTimer.armed

\* C3: after the countdown enters Completed, if the user neither dismisses nor
\* toggles nor resets, the dismissal delay fires (alert cleared, session
\* standing) whatever settings or voice-list changes occur meanwhile; the
\* delay can fire only while its timer is pending, so the timer stays armed
\* for as long as that alert is up.
C3_DismissalTimerStaysArmed ==
    (timerStatus = "completed" /\ showAlert /\ dismissed = "none") => alertTimer.armed

\* C4: after a manual dismissal, no dismissal timer of that completion runs:
\* the session advance and the stopwatch reset/start happen once.
C4_NoTimerAfterManualDismissal == dismissed # "manualThenTimer"

\* C5: no utterance of a completion is handed to the platform after the
\* session has advanced (manual dismissal, dismissal timer, manual switch).
C5_NoUtteranceAfterAdvance ==
    [][SpeakTimeoutFires => ~Head(speakTimeouts).advanced]_vars

\* C6: the alert flag is true only while the countdown is Completed and the
\* session has not advanced since.
C6_AlertOnlyWhileCompleted ==
    showAlert => (timerStatus = "completed" /\ dismissed = "none")

\* C7: right after a dismissal (manual or by the timer) the session is
\* standing and the stopwatch is Running from 0.
C7_DismissalStartsStopwatch ==
    lastOp \in {"dismissAlert", "alertTimer"} =>
        /\ settings.currentSession = "standing"
        /\ standingStatus = "running"
        /\ timeElapsed = 0

\* C8: a manual toggle from sitting leaves the countdown Idle at the configured
\* duration, the stopwatch Running from 0 and the session standing; it raises
\* no alert, schedules no speech and leaves no dismissal timer armed.
C8_ToggleFromSitting ==
    lastOp = "toggleToStanding" =>
        /\ timerStatus = "idle"
        /\ timeRemaining = settings.timerDuration
        /\ standingStatus = "running"
        /\ timeElapsed = 0
        /\ settings.currentSession = "standing"
        /\ announceCount = 0
        /\ speechCount = 0
        /\ ~hasAnnouncedRef
        /\ ~alertTimer.armed

\* C8 witness: the toggle was made out of a completion whose alert was up.
C8_Witness == lastOp = "toggleToStanding" /\ showAlert

\* C9 (as claimed): a manual toggle from standing stops the stopwatch, sets
\* the session to sitting and leaves the countdown Running from its duration.
C9_ToggleFromStandingStartsCountdown ==
    lastOp = "toggleToSitting" =>
        /\ standingStatus = "idle"
        /\ timeElapsed = 0
        /\ settings.currentSession = "sitting"
        /\ timerStatus = "running"
        /\ timeRemaining = settings.timerDuration

\* C9 (amended): a manual toggle from standing stops the stopwatch, sets the
\* session to sitting and leaves the countdown Idle at its configured duration.
C9_ToggleFromStandingResetsCountdown ==
    lastOp = "toggleToSitting" =>
        /\ standingStatus = "idle"
        /\ timeElapsed = 0
        /\ settings.currentSession = "sitting"
        /\ timerStatus = "idle"
        /\ timeRemaining = settings.timerDuration

\* C9 witness: the toggle was made while the countdown's alert was up.
C9_Witness == lastOp = "toggleToSitting" /\ showAlert

\* C10: a countdown started from Idle with duration d and ticked without
\* pause has remaining = d - ticks, is Completed exactly from the d-th tick
\* on, and then has remaining 0 and progress 100.
C10_CompletesOnTheLastTick ==
    (cleanRun /\ timerStatus \in {"running", "completed"}) =>
        /\ ticks <= settings.timerDuration
        /\ timeRemaining = settings.timerDuration - ticks
        /\ (timerStatus = "completed") = (ticks = settings.timerDuration)
        /\ (timerStatus = "completed" =>
               /\ timeRemaining = 0
               /\ ProgressIs(Progress(settings.timerDuration, timeRemaining), 100))

\* C10 witness: the longest duration, ticked to completion.
C10_Witness ==
    /\ cleanRun
    /\ timerStatus = "completed"
    /\ settings.timerDuration = MaxDuration
    /\ ticks = MaxDuration

\* C11: while the countdown sees only start, pause, resume and ticks, the
\* configured duration minus the remaining time is the number of ticks
\* delivered while it was Running.
C11_DecrementsEqualTicks ==
    plainRun => settings.timerDuration - timeRemaining = ticks

\* C12: reset and stop, called in any countdown state, leave the countdown
\* Idle with the remaining time equal to the configured duration, and the two
\* produce the same state.
C12_ResetAndStopReturnToIdle ==
    /\ lastOp \in {"stop", "reset"} =>
           (timerStatus = "idle" /\ timeRemaining = settings.timerDuration)
    /\ TimerStop(Cur, settings.timerDuration) = TimerReset(Cur, settings.timerDuration)
    /\ TimerStop(Cur, settings.timerDuration).timerStatus = "idle"
    /\ TimerStop(Cur, settings.timerDuration).timeRemaining = settings.timerDuration

\* C12 witness: stop has just run on a countdown of the longest duration.
C12_Witness ==
    lastOp = "stop" /\ timerStatus = "idle" /\ timeRemaining = MaxDuration

\* C13: setDuration called while the countdown is Running, Paused or Completed
\* leaves the remaining time and the status unchanged.
C13_SetDurationKeepsRemaining ==
    [][(lastOp' = "setDuration" /\ timerStatus # "idle") =>
          (timeRemaining' = timeRemaining /\ timerStatus' = timerStatus)]_vars

\* C14: setDuration(d) called while Idle sets the remaining time to d and
\* makes d the configured duration: progress is computed against d from then
\* on, and a later reset or stop restores the remaining time to d.
C14_IdleSetDurationReplacesConfigured ==
    idleSet # 0 =>
        /\ lastOp = "setDuration" => (timerStatus = "idle" /\ timeRemaining = idleSet)
        /\ SameProgress(Progress(settings.timerDuration, timeRemaining),
                        Progress(idleSet, timeRemaining))
        /\ lastOp \in {"stop", "reset"} => timeRemaining = idleSet

C16_ZeroOnlyWhenCompletedOrIdle ==
    timeRemaining = 0 => timerStatus \in {"completed", "idle"}

\* C16 witness: a countdown that has run out.
C16_Witness == timeRemaining = 0 /\ timerStatus = "completed" /\ lastOp = "tick"

\* C17: the status changes only by start (Idle or Paused to Running), pause
\* (Running to Paused), a tick at remaining <= 1 (Running to Completed) and
\* stop/reset (any state to Idle); start and pause in any other state change
\* nothing, and in Completed only stop/reset changes the status.
C17_StatusTransitions ==
    [][/\ timerStatus' # timerStatus =>
            \/ /\ lastOp' = "start"
               /\ timerStatus \in {"idle", "paused"}
               /\ timerStatus' = "running"
            \/ /\ lastOp' = "pause"
               /\ timerStatus = "running"
               /\ timerStatus' = "paused"
            \/ /\ lastOp' = "tick"
               /\ timerStatus = "running"
               /\ timeRemaining <= 1
               /\ timerStatus' = "completed"
            \/ /\ lastOp' \in {"stop", "reset"}
               /\ timerStatus' = "idle"
       /\ (lastOp' = "start" /\ timerStatus \notin {"idle", "paused"}) =>
            UNCHANGED <<timerStatus, timeRemaining>>
       /\ (lastOp' = "pause" /\ timerStatus # "running") =>
            UNCHANGED <<timerStatus, timeRemaining>>
       /\ (timerStatus = "completed" /\ lastOp' \notin {"stop", "reset"}) =>
            timerStatus' = "completed"]_vars

\* C17 witness: start was called on a Completed countdown, which stayed so.
C17_Witness == lastOp = "start" /\ timerStatus = "completed"

\* C18: the stopwatch has no Completed state; a tick while Running adds
\* exactly 1 to elapsed and leaves the status; start and pause leave elapsed
\* unchanged; elapsed decreases only by stop/reset, which give elapsed 0 and
\* Idle from any state.
C18_StopwatchCounts ==
    [][/\ standingStatus' \in {"idle", "running", "paused"}
       /\ lastOp' = "tick" =>
            (timeElapsed' = timeElapsed + 1 /\ standingStatus' = standingStatus)
       /\ lastOp' \in {"start", "pause"} => timeElapsed' = timeElapsed
       /\ lastOp' \in {"stop", "reset"} =>
            (timeElapsed' = 0 /\ standingStatus' = "idle")
       /\ timeElapsed' < timeElapsed => lastOp' \in {"stop", "reset"}]_vars

\* C18 witness: the stopwatch was paused after it had ticked as far as the
\* bound lets it.
C18_Witness ==
    lastOp = "pause" /\ standingStatus = "paused" /\ timeElapsed = MaxStandingTicks

\* C19: speak does nothing when speech is unsupported or the enabled flag is
\* false; a completion that occurs while speech is disabled or unsupported
\* schedules no speech call, and for as long as its alert cycle lasts (until
\* the first dismissal) no speech call is added and no utterance is handed to
\* the platform unless the completion scheduled one; no step that leaves the
\* countdown Completed with speech disabled adds a speech call either.
C19_NoSpeechWhenDisabled ==
    /\ [](\A sup \in BOOLEAN, en \in BOOLEAN :
            (~sup \/ ~en) =>
                Speak(Cur, sup, [enabled |-> en, advanced |-> FALSE]) = Cur)
    /\ [][/\ (/\ timerStatus # "completed"
              /\ timerStatus' = "completed"
              /\ (~settings'.speechEnabled \/ ~isSupported')) =>
                 (speechCount' = 0 /\ speechTimeouts' = <<>> /\ speakTimeouts' = <<>>)
          /\ (/\ timerStatus = "completed"
              /\ timerStatus' = "completed"
              /\ dismissed' = "none") =>
                 (speechCount' = speechCount
                    /\ Len(speechTimeouts') <= Len(speechTimeouts))
          /\ (/\ timerStatus = "completed"
              /\ timerStatus' = "completed"
              /\ (~settings'.speechEnabled \/ ~isSupported')) =>
                 (speechCount' = speechCount
                    /\ Len(speechTimeouts') <= Len(speechTimeouts))
          /\ (/\ timerStatus = "completed"
              /\ dismissed = "none"
              /\ speechCount = 0) => ~SpeakTimeoutFires]_vars

\* C19 witness: the alert of a completion that found speech disabled on a
\* platform that supports it; nothing was scheduled.
C19_Witness ==
    /\ timerStatus = "completed"
    /\ dismissed = "none"
    /\ showAlert
    /\ isSupported
    /\ ~settings.speechEnabled
    /\ speechCount = 0
    /\ synthQueue = 0

\* C20: the platform never holds more than one utterance of the announcer
\* (speaking or queued), speak being called twice in quick succession included.
C20_AtMostOneUtterance == synthQueue <= 1

\* The platform lists no voice whose voiceURI or name is id.
VoiceAbsent(list, id) ==
    \A i \in 1..Len(list) : list[i].voiceURI # id /\ ~NameIs(list[i].name, id)

\* C21: when the deferred callback of a speak that asked for a voice the
\* platform does not list runs, the utterance is handed to the platform with no
\* voice set on it, error and isSpeaking stay as they were and no exception
\* leaves the hook.
C21_AbsentVoiceStillSpeaks ==
    [][(/\ lastOp' = "deferred"
        /\ announcer.requested # <<>>
        /\ Head(announcer.requested) # NoVoice
        /\ VoiceAbsent(platformVoices, Head(announcer.requested))) =>
           (/\ synthQueue' = synthQueue + 1
            /\ announcer'.utterance.requested = Head(announcer.requested)
            /\ announcer'.utterance.voice = NoVoice
            /\ announcer'.error = announcer.error
            /\ announcer'.isSpeaking = announcer.isSpeaking
            /\ announcer'.uncaught = announcer.uncaught)]_vars

\* C21 witness: an utterance was just handed over for a speak that asked for a
\* voice missing from a non-empty platform list; it carries no voice and
\* there is no error.
C21_Witness ==
    /\ lastOp = "deferred"
    /\ synthQueue = 1
    /\ Len(platformVoices) > 0
    /\ announcer.utterance.requested = "amelie"
    /\ VoiceAbsent(platformVoices, "amelie")
    /\ announcer.utterance.voice = NoVoice
    /\ announcer.error = NoError
    /\ ~announcer.uncaught

\* C22: isSpeaking follows the latest utterance: it is true only while the
\* platform is speaking an utterance or has yet to report the end of one it
\* cancelled, and it is true whenever the platform is speaking the only
\* utterance it holds, whatever the order in which the events of cancelled
\* utterances arrive.
C22_IsSpeakingTracksUtterance ==
    /\ announcer.isSpeaking => (announcer.started \/ announcer.cancelled > 0)
    /\ (synthQueue = 1 /\ announcer.started) => announcer.isSpeaking

\* C23: a platform failure during speak (cancel() throwing, the deferred
\* callback throwing while it builds or hands over the utterance, an error
\* event of an utterance) leaves error holding a message and isSpeaking false,
\* and lets no exception out of the hook.
C23_FailuresEndInError ==
    [][lastOp' \in {"speakThrows", "deferredThrows", "onerror", "oncancelled"} =>
          (/\ announcer'.error # NoError
           /\ ~announcer'.isSpeaking
           /\ announcer'.uncaught = announcer.uncaught)]_vars

\* The allow-list entries that some voice of the list matches.
MatchedEntries(list) ==
    {k \in 1..Len(preferredVoices) :
        \E i \in 1..Len(list) : Includes(list[i].name, preferredVoices[k])}

\* The least element of a non-empty set of numbers.
Earliest(S) == CHOOSE k \in S : \A j \in S : k <= j

\* C24: getDefaultVoice returns null exactly when the published list is empty;
\* otherwise the id of a voice whose name contains the earliest allow-list
\* entry that any voice matches, and the first voice's id when none matches.
C24_DefaultVoice ==
    lastOp = "getDefaultVoice" =>
        /\ (settings.selectedVoice = NoVoice) <=> (voices = <<>>)
        /\ (voices # <<>> /\ MatchedEntries(voices) = {}) =>
               settings.selectedVoice = voices[1].voiceURI
        /\ MatchedEntries(voices) # {} =>
               \E i \in 1..Len(voices) :
                   /\ voices[i].voiceURI = settings.selectedVoice
                   /\ Includes(voices[i].name,
                               preferredVoices[Earliest(MatchedEntries(voices))])

\* C24 witness: the list's first voice matches a later allow-list entry than
\* its second voice, and the second voice was returned.
C24_Witness ==
    /\ lastOp = "getDefaultVoice"
    /\ Len(voices) = 2
    /\ voices[1].voiceURI = "samantha"
    /\ voices[2].voiceURI = "google"
    /\ settings.selectedVoice = "google"

\* C25: after a voiceschanged signal the published voices are the platform's
\* current list: its English voices when it has any, otherwise all of them.
C25_PublishedFollowsPlatform ==
    lastOp = "voiceschanged" => voices = UpdateVoices(platformVoices)

\* C26: the duration-sync effect alters remaining only while the countdown is
\* Idle: a step that leaves the countdown Running, Paused or Completed never
\* raises remaining (ticks and the developer panel only lower it, and the
\* effect's write of the configured duration would raise it).
C26_SyncOnlyWhenIdle ==
    [][timerStatus' # "idle" => timeRemaining' <= timeRemaining]_vars

\* C27: each engine has exactly one tick scheduler while it is Running and
\* none otherwise, so no tick is applied once the status has left Running and
\* no engine ever has two schedulers.
C27_OneSchedulerWhileRunning ==
    /\ intervals.timer.live = (IF timerStatus = "running" THEN 1 ELSE 0)
    /\ intervals.standing.live = (IF standingStatus = "running" THEN 1 ELSE 0)

\* C27 witness: the countdown has completed and its scheduler is cleared,
\* while the stopwatch runs on its one scheduler.
C27_Witness ==
    /\ timerStatus = "completed"
    /\ intervals.timer = [live |-> 0, ref |-> FALSE, refLive |-> FALSE]
    /\ standingStatus = "running"
    /\ intervals.standing = [live |-> 1, ref |-> TRUE, refLive |-> TRUE]
    /\ timeElapsed > 0

\* C28: the announced-once guard is clear whenever the countdown is out of
\* Completed, whichever way it left, and every step that takes the countdown
\* into Completed raises the alert and the guard and counts one announcement.
C28_EveryCompletionAnnounced ==
    /\ [](timerStatus # "completed" => ~hasAnnouncedRef)
    /\ [][(timerStatus # "completed" /\ timerStatus' = "completed") =>
              (showAlert' /\ hasAnnouncedRef' /\ announceCount' = 1)]_vars

\* C28 witness: a completion has just been announced, its speech call still
\* pending, while the platform is still speaking the announcement of an
\* earlier completion.
C28_Witness ==
    /\ timerStatus = "completed"
    /\ showAlert
    /\ hasAnnouncedRef
    /\ dismissed = "none"
    /\ announceCount = 1
    /\ speechCount = 1
    /\ Len(speechTimeouts) = 1
    /\ ~speechTimeouts[1].advanced
    /\ synthQueue = 1

\* C29: in the single-engine orchestrator, while the countdown stays Completed
\* at most one speech call has been scheduled for that completion, re-renders
\* included, and at most one dismissal timer is armed.
C29_SingleAnnouncedOnce ==
    timerStatus = "completed" => speechCount <= 1

C31_NothingRunsAfterUnmount ==
    [][~mounted =>
          (/\ Len(speakTimeouts') <= Len(speakTimeouts)
           /\ synthQueue' <= synthQueue
           /\ UNCHANGED <<timeRemaining, timerStatus, timeElapsed, standingStatus,
                          showAlert, settings>>)]_vars

\* C32: the configured duration is always one of the presets: the preset
\* handler ignores a value that is not a preset, and the developer panel's
\* durations reach the countdown only, never the settings record.
C32_DurationIsAPreset == settings.timerDuration \in DEFAULT_TIMER_PRESETS

\* A developer duration is counting down under an unchanged preset.
C32_Witness ==
    /\ timerStatus = "running"
    /\ ~plainRun
    /\ timeRemaining \in fastForwardOptions
    /\ timeRemaining \notin DEFAULT_TIMER_PRESETS
    /\ settings.timerDuration \in DEFAULT_TIMER_PRESETS

\* C33: stop is idempotent: when the platform is speaking nothing it changes
\* no state; when an utterance is being spoken the platform's queue is emptied
\* and isSpeaking is false; a second stop right after changes nothing more.
C33_StopIsIdempotent ==
    [][lastOp' = "stop" =>
          (/\ (synthQueue = 0 \/ ~isSupported) =>
                  UNCHANGED <<announcer, synthQueue, speakTimeouts, voices,
                              platformVoices, isSupported>>
           /\ (synthQueue > 0 /\ isSupported) =>
                  (synthQueue' = 0 /\ ~announcer'.isSpeaking)
           /\ StopCall(Cur, isSupported)' = Cur')]_vars

\* stop has just cancelled an utterance that was being spoken.
C33_Witness ==
    /\ lastOp = "stop"
    /\ announcer.cancelled > 0
    /\ synthQueue = 0
    /\ ~announcer.isSpeaking
    /\ announcer.utterance.requested # NoVoice

\* C34: while the countdown is Completed its remaining time is 0, in every
\* reachable state of the two-engine orchestrator.
C34_CompletedShowsZero == timerStatus = "completed" => timeRemaining = 0

\* C35: at most one engine is Running: the countdown runs only while the
\* session is sitting, the stopwatch only while it is standing.
C35_OneEngineRunning ==
    /\ timerStatus = "running" =>
           (settings.currentSession = "sitting" /\ standingStatus # "running")
    /\ standingStatus = "running" => settings.currentSession = "standing"

\* C36: the selected voice changes only by the user's choice or by the
\* default-voice effect filling an empty selection, which happens only when the
\* published list is non-empty, writes that list's default voice and changes
\* no other settings field; a chosen voice is never replaced by the effect.
C36_DefaultVoiceOnlyFillsEmpty ==
    [][settings'.selectedVoice # settings.selectedVoice =>
          \/ HandleVoiceChange
          \/ /\ settings.selectedVoice = NoVoice
             /\ Len(voices') > 0
             /\ settings'.selectedVoice = GetDefaultVoice(voices')
             /\ settings' = [settings EXCEPT
                                !.selectedVoice = settings'.selectedVoice]]_vars

\* A chosen voice that is not the default stands after the voice list, empty
\* at mount, has been published.
C36_Witness ==
    /\ voicesListener
    /\ Len(voices) > 0
    /\ settings.selectedVoice \notin {NoVoice, GetDefaultVoice(voices)}

====
